---- MODULE Spec2Model ----
(***************************************************************************)
(* Recursive Note Deleter (Obsidian plugin), src/main.ts.                  *)
(*                                                                         *)
(* deleteLinkedNotes walks the links and embeds of the active file         *)
(* (getLinkedFiles), narrows the result (filterFilesToDelete), asks for    *)
(* confirmation, copies the files to the backup, deletes them and rewrites *)
(* the documents that refer to them (removeBacklinks).                     *)
(*                                                                         *)
(* SpecWalk    the walk and the filter over every small reference graph    *)
(* SpecWalkThrow  the walk over graphs of links, an exception raised       *)
(* Spec        deleteLinkedNotes from the ribbon click to its last promise *)
(* SpecRewrite removeBacklinks over referring documents of many shapes     *)
(***************************************************************************)
EXTENDS Integers, Sequences, FiniteSets, TLC

\* ---------------------------------------------------------------- bounds
NumDocs == 3
\* links and embeds in the vault of SpecWalk
MaxEdges == 3
\* lines written into the vault of SpecRewrite
MaxLines == 2
\* entries of the backlink index that lag behind the text
MaxStale == 1
\* files passed to removeBacklinks in SpecRewrite
MaxRemoved == 2
\* Exceptions raised during one walk.
MaxThrows == 1

Docs == 1..NumDocs

\* getFirstLinkpathDest returns null for a link that resolves to no file.
NoDest == 0

Targets == Docs \cup {NoDest}

DeleteModes == {"both", "notes-only", "attachments-only"}

InlineLinkBehaviors == {"remove-link", "keep-name", "add-note"}

VARIABLES
    settings,       \* RecursiveNoteDeleterSettings
    cache,          \* metadataCache.getFileCache: links and embeds per document
    content,        \* the text of each document, as its lines
    backlinks,      \* metadataCache.getBacklinksForFile: referrers per document
    deleted,        \* documents a completed vault.delete has removed
    rejected,       \* documents whose vault.delete promise was rejected
    pc,             \* position of deleteLinkedNotes
    modalResult,    \* what FileListModal passed to onConfirm
    root,           \* the file deleteLinkedNotes was called on
    stack,          \* call stack of getLinkedFiles (one frame per active call)
    visited,        \* the visited set shared by all recursive calls
    thrown,         \* documents whose getLinkedFiles call ended in an exception
    linkedFiles,    \* value returned by the top-level getLinkedFiles
    filesToDelete,  \* value returned by filterFilesToDelete
    backups,        \* files copied by backupFiles, in order
    deleteCalls,    \* arguments of the vault.delete calls, in order
    removed,        \* the argument of removeBacklinks
    original,       \* the text of each document when removeBacklinks was called
    chains          \* one vault.read(...).then(...) chain per reported referrer

vars == <<settings, cache, content, backlinks, deleted, rejected, pc, modalResult,
          root, stack, visited, thrown, linkedFiles, filesToDelete, backups,
          deleteCalls, removed, original, chains>>

walkVars == <<stack, visited, thrown, linkedFiles, filesToDelete>>

vaultVars == <<cache, content, backlinks>>

effectVars == <<deleted, rejected, backups, deleteCalls, removed, original, chains>>

\* ---------------------------------------------------------------- helpers
Range(s) == {s[i] : i \in DOMAIN s}

NoDup(s) == \A i, j \in DOMAIN s : i # j => s[i] # s[j]

\* A JavaScript Set keeps insertion order and ignores a value it already holds.
SetAddDup(s, x) == Append(s, x)

SetAdd(s, x) == IF x \in Range(s) THEN s ELSE Append(s, x)

RECURSIVE SetAddAll(_, _)
SetAddAll(s, t) ==
    IF t = <<>> THEN s ELSE SetAddAll(SetAdd(s, Head(t)), Tail(t))

RECURSIVE Flatten(_)
Flatten(ss) == IF ss = <<>> THEN <<>> ELSE Head(ss) \o Flatten(Tail(ss))

\* The elements of a set of integers in increasing order.
RECURSIVE Ascending(_)
Ascending(S) ==
    IF S = {} THEN <<>>
    ELSE LET m == CHOOSE x \in S : \A y \in S : x <= y
         IN <<m>> \o Ascending(S \ {m})

\* ------------------------------------------------------------------- text
\* A string is a sequence of one-character strings.
UpperCase == <<"A","B","C","D","E","F","G","H","I","J","K","L","M",
               "N","O","P","Q","R","S","T","U","V","W","X","Y","Z">>

LowerCase == <<"a","b","c","d","e","f","g","h","i","j","k","l","m",
               "n","o","p","q","r","s","t","u","v","w","x","y","z">>

\* Canonical form of a character under the regular expression flag i.
Fold(c) ==
    IF \E k \in DOMAIN UpperCase : UpperCase[k] = c
    THEN LowerCase[CHOOSE k \in DOMAIN UpperCase : UpperCase[k] = c]
    ELSE c

\* \s
IsSpace(c) == c = " "

StartsWithAt(s, p, lit) ==
    /\ p + Len(lit) - 1 <= Len(s)
    /\ \A k \in DOMAIN lit : s[p + k - 1] = lit[k]

StartsWithAtFold(s, p, lit) ==
    /\ p + Len(lit) - 1 <= Len(s)
    /\ \A k \in DOMAIN lit : Fold(s[p + k - 1]) = Fold(lit[k])

\* String.prototype.trim
Trim(s) ==
    LET keep == {i \in DOMAIN s : ~IsSpace(s[i])}
    IN IF keep = {} THEN <<>>
       ELSE SubSeq(s, CHOOSE i \in keep : \A j \in keep : i <= j,
                      CHOOSE i \in keep : \A j \in keep : i >= j)

\* Position after the leading whitespace of s (the greedy \s* after ^).
SkipSpace(s) ==
    LET rest == {i \in DOMAIN s : ~IsSpace(s[i])}
    IN IF rest = {} THEN Len(s) + 1 ELSE CHOOSE i \in rest : \A j \in rest : i <= j

\* /\[{2}.*?\]{2}\s*$/ anchored at position p of s.
BracketedToEnd(s, p) ==
    /\ StartsWithAt(s, p, <<"[", "[">>)
    /\ \E j \in (p + 2)..(Len(s) - 1) :
          /\ s[j] = "]" /\ s[j + 1] = "]"
          /\ \A k \in (j + 2)..Len(s) : IsSpace(s[k])

\* /^\s*[-*+]\s/ (line 208)
IsListItem(s) ==
    LET p == SkipSpace(s)
    IN p + 1 <= Len(s) /\ s[p] \in {"-", "*", "+"} /\ IsSpace(s[p + 1])

\* /^\s*\[{2}.*?\]{2}\s*$/ (line 209, first test)
IsBareLink(s) == BracketedToEnd(s, SkipSpace(s))

\* /^\s*[-*+]\s\[{2}.*?\]{2}\s*$/ (line 209, second test)
IsListItemLink(s) == IsListItem(s) /\ BracketedToEnd(s, SkipSpace(s) + 2)

\* A standalone test that sees list items only, not a bare link line.
IsStandaloneLinkListOnly(line, listItems) ==
    LET trimmedLine == Trim(line)
    IN listItems /\ IsListItem(trimmedLine) /\ IsListItemLink(trimmedLine)

\* isStandaloneLink (line 209)
IsStandaloneLink(line, listItems) ==
    LET trimmedLine == Trim(line)
    IN \/ IsBareLink(trimmedLine)
       \/ (listItems /\ IsListItem(trimmedLine) /\ IsListItemLink(trimmedLine))

\* ---------------------------------------------------------- the link pattern
\* The characters of the class [.*+?^\\${}()|[\]\\] (line 219).
SpecialChars == {".", "*", "+", "?", "^", "\\", "$", "{", "}", "(", ")", "|", "[", "]"}

\* name.replace(/[.*+?^\\${}()|[\]\\]/g, '\\\\$&'): the replacement string is
\* two backslashes followed by the matched character.
RECURSIVE EscapeName(_)
EscapeName(name) ==
    IF name = <<>> THEN <<>>
    ELSE (IF Head(name) \in SpecialChars
          THEN <<"\\", "\\", Head(name)>>
          ELSE <<Head(name)>>) \o EscapeName(Tail(name))

\* The escaped name read as regular expression source: backslash and a
\* character is that character, a bare dot is any character, anything else
\* stands for itself (file names of the model hold letters and dots only).
RECURSIVE Atoms(_)
Atoms(src) ==
    IF src = <<>> THEN <<>>
    ELSE IF Head(src) = "\\" /\ Len(src) >= 2
         THEN <<[any |-> FALSE, ch |-> src[2]]>> \o Atoms(Tail(Tail(src)))
         ELSE <<[any |-> Head(src) = ".", ch |-> Head(src)]>> \o Atoms(Tail(src))

\* The atoms match s at position q: the position after them, or 0.
MatchAtoms(s, q, atoms) ==
    IF /\ q + Len(atoms) - 1 <= Len(s)
       /\ \A k \in DOMAIN atoms :
             atoms[k].any \/ Fold(s[q + k - 1]) = Fold(atoms[k].ch)
    THEN q + Len(atoms) ELSE 0

\* (?:#.*)?\]\] at position p: the position after the match, or 0. The
\* greedy .* runs to the last ]] of the line.
MatchAnchorClose(s, p) ==
    IF p <= Len(s) /\ s[p] = "#"
    THEN LET ends == {e \in (p + 1)..(Len(s) - 1) : s[e] = "]" /\ s[e + 1] = "]"}
         IN IF ends = {} THEN 0
            ELSE (CHOOSE e \in ends : \A f \in ends : e >= f) + 2
    ELSE IF StartsWithAt(s, p, <<"]", "]">>) THEN p + 2 ELSE 0

\* (?:\.md)?(?:#.*)?\]\] at position p: the position after the match, or 0.
MatchTail(s, p) ==
    LET withMd == IF StartsWithAtFold(s, p, <<".", "m", "d">>)
                  THEN MatchAnchorClose(s, p + 3) ELSE 0
    IN IF withMd # 0 THEN withMd ELSE MatchAnchorClose(s, p)

\* .*?NAME(?:\.md)?(?:#.*)?\]\] from position p on: the lazy .*? takes the
\* first position at which the rest matches.
MatchLazyName(s, p, atoms) ==
    LET ok == {q \in p..(Len(s) + 1) :
                 MatchAtoms(s, q, atoms) # 0 /\ MatchTail(s, MatchAtoms(s, q, atoms)) # 0}
    IN IF ok = {} THEN 0
       ELSE MatchTail(s, MatchAtoms(s, CHOOSE q \in ok : \A r \in ok : q <= r, atoms))

\* linkPattern (line 221) at position p: the first alternative, then the
\* second. The position after the match, or 0.
MatchLinkAt(s, p, atoms) ==
    IF StartsWithAt(s, p, <<"[", "[">>) THEN MatchLazyName(s, p + 2, atoms)
    ELSE IF StartsWithAt(s, p, <<"!", "[", "[">>) THEN MatchLazyName(s, p + 3, atoms)
    ELSE 0

\* linkPattern.test(line) (line 223)
TestLink(s, atoms) == \E p \in DOMAIN s : MatchLinkAt(s, p, atoms) # 0

Placeholder == <<"B","A","C","K","L","I","N","K"," ","R","E","M","O","V","E","D">>

\* The replacement callback (lines 226-237).
Replacement(match, behavior) ==
    CASE behavior = "remove-link" -> <<>>
      [] behavior = "keep-name" -> SelectSeq(match, LAMBDA c : c \notin {"[", "]"})
      [] behavior = "add-note" -> Placeholder
      [] OTHER -> match

\* line.replace(linkPattern, ...) with the flag g, from position p on.
RECURSIVE ReplaceFrom(_, _, _, _)
ReplaceFrom(s, p, atoms, behavior) ==
    IF p > Len(s) THEN <<>>
    ELSE LET e == MatchLinkAt(s, p, atoms)
         IN IF e # 0
            THEN Replacement(SubSeq(s, p, e - 1), behavior) \o ReplaceFrom(s, e, atoms, behavior)
            ELSE <<s[p]>> \o ReplaceFrom(s, p + 1, atoms, behavior)

\* The names removeBacklinks derives (line 166): /\.md\\$/ asks for a
\* backslash after ".md" at the end of the name.
StripMdSuffix(name) ==
    IF Len(name) >= 3 /\ SubSeq(name, Len(name) - 2, Len(name)) = <<".", "m", "d">>
    THEN SubSeq(name, 1, Len(name) - 3) ELSE name

StripMdBackslashSuffix(name) ==
    IF Len(name) >= 4 /\ SubSeq(name, Len(name) - 3, Len(name)) = <<".", "m", "d", "\\">>
    THEN SubSeq(name, 1, Len(name) - 4) ELSE name

\* fileNames.forEach (lines 218-239) on one line: [line, changed].
RECURSIVE RewriteInline(_, _, _)
RewriteInline(line, names, behavior) ==
    IF names = <<>> THEN [line |-> line, changed |-> FALSE]
    ELSE LET atoms == Atoms(EscapeName(Head(names)))
             hit == TestLink(line, atoms)
             now == IF hit THEN ReplaceFrom(line, 1, atoms, behavior) ELSE line
             rest == RewriteInline(now, Tail(names), behavior)
         IN [line |-> rest.line, changed |-> hit \/ rest.changed]

\* The loop over the lines (lines 201-242): [lines, changed].
RECURSIVE RewriteLines(_, _, _, _)
RewriteLines(lines, names, behavior, listItems) ==
    IF lines = <<>> THEN [lines |-> <<>>, changed |-> FALSE]
    ELSE LET rest == RewriteLines(Tail(lines), names, behavior, listItems)
         IN IF IsStandaloneLink(Head(lines), listItems)
            THEN [lines |-> rest.lines, changed |-> TRUE]
            ELSE LET r == RewriteInline(Head(lines), names, behavior)
                 IN [lines |-> <<r.line>> \o rest.lines,
                     changed |-> r.changed \/ rest.changed]

\* ------------------------------------------------------------ file names
Letters == <<"n", "o", "p", "q", "r", "s", "t", "u">>

\* TFile.name: odd documents are notes ("n.md", "p.md"), even ones are files
\* without an extension ("o", "q").
FileName(d) ==
    IF d % 2 = 1 THEN <<Letters[d], ".", "m", "d">> ELSE <<Letters[d]>>

\* TFile.extension: the text after the last dot of the name.
Extension(d) ==
    LET name == FileName(d)
        dots == {i \in DOMAIN name : name[i] = "."}
    IN IF dots = {} THEN <<>>
       ELSE SubSeq(name, (CHOOSE i \in dots : \A j \in dots : i >= j) + 1, Len(name))

IsNote(d) == Extension(d) = <<"m", "d">>

\* The text Obsidian writes for a link to d: the name without ".md".
LinkText(d) == IF d = NoDest THEN <<"x">> ELSE StripMdSuffix(FileName(d))

Bracketed(t) == <<"[", "[">> \o t \o <<"]", "]">>

\* The text of a note that links and embeds what its cache lists.
NoteText(c) ==
    LET linkLines == [i \in DOMAIN c.links |-> Bracketed(LinkText(c.links[i]))]
        embedLines == [i \in DOMAIN c.embeds |-> <<"!">> \o Bracketed(LinkText(c.embeds[i]))]
    IN IF linkLines \o embedLines = <<>> THEN <<<<>>>> ELSE linkLines \o embedLines

NoteTexts(ch) == [d \in Docs |-> NoteText(ch[d])]

\* The backlink index of a cache: who links to or embeds d.
Referrers(ch) ==
    [d \in Docs |-> {r \in Docs : d \in Range(ch[r].links) \cup Range(ch[r].embeds)}]

\* data.split('\n') and newLines.join('\n'): no line at all is stored as
\* the empty text, which splits into one empty line.
StoredLines(lines) == IF lines = <<>> THEN <<<<>>>> ELSE lines

NumEdges == Len(Flatten([d \in Docs |-> cache[d].links \o cache[d].embeds]))

NumLines == Len(Flatten([d \in Docs |-> IF content[d] = <<<<>>>> THEN <<>> ELSE content[d]]))

\* Index entries with no link or embed in the cache behind them.
StaleEntries ==
    {p \in Docs \X Docs : p[2] \in backlinks[p[1]] /\ p[2] \notin Referrers(cache)[p[1]]}

\* Lines a user may write into a document: the text and what its links and
\* embeds resolve to (n is document 1, o is document 2, x names no file).
Palette == <<
    [text |-> <<"[", "[", "n", "]", "]">>,
     links |-> <<1>>, embeds |-> <<>>],
    [text |-> <<" ", "[", "[", "n", "]", "]", " ">>,
     links |-> <<1>>, embeds |-> <<>>],
    [text |-> <<"a", " ", "[", "[", "n", "]", "]", " ", "b">>,
     links |-> <<1>>, embeds |-> <<>>],
    [text |-> <<"-", " ", "[", "[", "n", "]", "]">>,
     links |-> <<1>>, embeds |-> <<>>],
    [text |-> <<"[", "[", "x", "]", "]">>,
     links |-> <<0>>, embeds |-> <<>>],
    [text |-> <<"a", " ", "[", "[", "o", "]", "]", " ", "b">>,
     links |-> <<2>>, embeds |-> <<>>],
    [text |-> <<"!", "[", "[", "o", "]", "]", "[", "[", "x", "]", "]">>,
     links |-> <<0>>, embeds |-> <<2>>],
    [text |-> <<"a", " ", "[", "[", "x", "]", "]", " ", "b", " ", "[", "[", "O", "]", "]", " ", "c">>,
     links |-> <<0, 2>>, embeds |-> <<>>],
    [text |-> <<"a", " ", "!", "[", "[", "o", "#", "h", "]", "]", " ", "b">>,
     links |-> <<>>, embeds |-> <<2>>],
    [text |-> <<"a", " ", "[", "[", "n", "\\", ".", "m", "d", "]", "]", " ", "b">>,
     links |-> <<0>>, embeds |-> <<>>],
    [text |-> <<"a", "b", "c">>,
     links |-> <<>>, embeds |-> <<>>]
>>

\* ------------------------------------------------------ filterFilesToDelete
FilterKeepsSwapped(mode, d) ==
    /\ ~(mode = "notes-only" /\ IsNote(d))
    /\ ~(mode = "attachments-only" /\ ~IsNote(d))

FilterKeeps(mode, d) ==
    /\ ~(mode = "notes-only" /\ ~IsNote(d))
    /\ ~(mode = "attachments-only" /\ IsNote(d))

filterFilesToDelete(files, mode) ==
    LET Keep(d) == FilterKeeps(mode, d) IN SelectSeq(files, Keep)

\* ----------------------------------------------------------- getLinkedFiles
\* The guard of lines 89 and 108: the target resolved and is not yet visited.
AddableIgnoringVisited(t, vis) == t # NoDest

Addable(t, vis) == t # NoDest /\ t \notin vis

\* The guard of line 82: a cache exists and the file is not yet visited.
Enters(f, vis) == cache[f].has /\ f \notin vis

\* Lines 91-93: the recursive call is made only under recursiveDelete, and it
\* does anything only if the guard of line 82 lets it in.
RecursesNever(t, vis) == FALSE

Recurses(t, vis) == settings.recursiveDelete /\ Enters(t, vis)

NewFrame(f) == [file |-> f, li |-> 1, ei |-> 1, set |-> <<>>]

Top == stack[Len(stack)]

ReplaceTop(fr) == [stack EXCEPT ![Len(stack)] = fr]

\* What deleteLinkedNotes does with the filtered list (lines 51-61).
AfterWalkPcUnconfirmed(files) ==
    IF Len(files) = 0 THEN "nofiles" ELSE "proceed"

AfterWalkPc(files) ==
    IF Len(files) = 0 THEN "nofiles"
    ELSE IF settings.confirmDeletion THEN "confirm" ELSE "proceed"

\* ---------------------------------------------------------- removeBacklinks
\* fileNames (line 166).
FileNames(files) == [i \in DOMAIN files |-> StripMdBackslashSuffix(FileName(files[i]))]

\* The chains removeBacklinks starts (lines 174-194): for each file, one read
\* of every referrer the index reports that is still in the vault.
NewChains(files) ==
    Flatten([i \in DOMAIN files |->
        LET refs == Ascending(backlinks[files[i]] \ deleted)
        IN [k \in DOMAIN refs |->
               [file |-> refs[k], target |-> files[i], st |-> "reading",
                data |-> <<>>, out |-> <<>>]]])

\* What the then-callback of a chain computes from the text it read.
Rewritten(data) ==
    RewriteLines(data, FileNames(removed), settings.inlineLinkBehavior,
                 settings.considerListItemsAsStandalone)

\* ------------------------------------------------------------------- Init
\* DEFAULT_SETTINGS (lines 17-26).
DefaultSettings ==
    [confirmDeletion |-> TRUE,
     recursiveDelete |-> TRUE,
     deleteMode |-> "both",
     removeBacklinks |-> FALSE,
     enableBackup |-> FALSE,
     backupLocation |-> "",
     inlineLinkBehavior |-> "add-note",
     considerListItemsAsStandalone |-> FALSE]

Cached(l, e) == [has |-> TRUE, links |-> l, embeds |-> e]

EmptyVault(has) == [d \in Docs |-> [has |-> has[d], links |-> <<>>, embeds |-> <<>>]]

MkVault(c1, c2, c3) ==
    [d \in Docs |-> CASE d = 1 -> c1 [] d = 2 -> c2 [] d = 3 -> c3
                      [] OTHER -> Cached(<<>>, <<>>)]

\* The vaults deleteLinkedNotes is run on in Spec.
ScenarioVaults ==
    { \* 1 links 2, 2 links 3, 3 links back to 1
      MkVault(Cached(<<2>>, <<>>), Cached(<<3>>, <<>>), Cached(<<1>>, <<>>)),
      \* 1 links 2 and 3, 3 links 2
      MkVault(Cached(<<2, 3>>, <<>>), Cached(<<>>, <<>>), Cached(<<2>>, <<>>)),
      \* 1 links 3 and embeds 2, which has a link of its own
      MkVault(Cached(<<3>>, <<2>>), Cached(<<3, 1>>, <<>>), Cached(<<>>, <<>>)),
      \* 1 links itself and a file that does not exist
      MkVault(Cached(<<1, NoDest>>, <<>>), Cached(<<>>, <<>>), Cached(<<>>, <<>>)),
      \* 1 links 3, 3 links back to 1 and embeds 2
      MkVault(Cached(<<3>>, <<>>), Cached(<<>>, <<>>), Cached(<<1>>, <<2>>)) }

InitProgram ==
    /\ deleted = {}
    /\ rejected = {}
    /\ pc = "idle"
    /\ modalResult = "none"
    /\ root = NoDest
    /\ stack = <<>>
    /\ visited = {}
    /\ thrown = {}
    /\ linkedFiles = <<>>
    /\ filesToDelete = <<>>
    /\ backups = <<>>
    /\ deleteCalls = <<>>
    /\ removed = <<>>
    /\ original = [d \in Docs |-> <<>>]
    /\ chains = <<>>

\* SpecWalk: an empty vault in which some documents have no cache.
InitWalk ==
    /\ \E r \in BOOLEAN, m \in DeleteModes :
          settings = [DefaultSettings EXCEPT !.recursiveDelete = r, !.deleteMode = m]
    /\ \E has \in [Docs -> BOOLEAN] : cache = EmptyVault(has)
    /\ content = NoteTexts(cache)
    /\ backlinks = Referrers(cache)
    /\ InitProgram

\* Spec: a scenario vault under every setting deleteLinkedNotes reads.
Init ==
    /\ \E c, r, rb, eb \in BOOLEAN, m \in DeleteModes, loc \in {"", "/backup"} :
          settings = [DefaultSettings EXCEPT !.confirmDeletion = c,
                                             !.recursiveDelete = r,
                                             !.deleteMode = m,
                                             !.removeBacklinks = rb,
                                             !.enableBackup = eb,
                                             !.backupLocation = loc]
    /\ cache \in ScenarioVaults
    /\ content = NoteTexts(cache)
    /\ backlinks = Referrers(cache)
    /\ InitProgram

\* SpecRewrite: an empty vault under every setting removeBacklinks reads.
InitRewrite ==
    /\ \E b \in InlineLinkBehaviors, li \in BOOLEAN :
          settings = [DefaultSettings EXCEPT !.removeBacklinks = TRUE,
                                             !.inlineLinkBehavior = b,
                                             !.considerListItemsAsStandalone = li]
    /\ cache = EmptyVault([d \in Docs |-> TRUE])
    /\ content = NoteTexts(cache)
    /\ backlinks = Referrers(cache)
    /\ InitProgram

\* ------------------------------------------------------------ environment
\* Before the command runs the user writes a link into a note; the cache lists
\* the links of a note in document order and the index follows the cache.
EditLink(d, t) ==
    /\ pc = "idle"
    /\ cache[d].has
    /\ NumEdges < MaxEdges
    /\ cache' = [cache EXCEPT ![d].links = Append(@, t)]
    /\ content' = NoteTexts(cache')
    /\ backlinks' = Referrers(cache')
    /\ UNCHANGED <<settings, pc, modalResult, root, walkVars, effectVars>>

EditEmbed(d, t) ==
    /\ pc = "idle"
    /\ cache[d].has
    /\ NumEdges < MaxEdges
    /\ cache' = [cache EXCEPT ![d].embeds = Append(@, t)]
    /\ content' = NoteTexts(cache')
    /\ backlinks' = Referrers(cache')
    /\ UNCHANGED <<settings, pc, modalResult, root, walkVars, effectVars>>

\* The user appends a line of the palette to a document.
WriteLine(d, k) ==
    /\ pc = "idle" /\ removed = <<>>
    /\ NumLines < MaxLines
    /\ content' = [content EXCEPT ![d] =
                      IF @ = <<<<>>>> THEN <<Palette[k].text>>
                      ELSE Append(@, Palette[k].text)]
    /\ cache' = [cache EXCEPT ![d].links = @ \o Palette[k].links,
                              ![d].embeds = @ \o Palette[k].embeds]
    /\ backlinks' = [t \in Docs |->
                        IF t \in Range(Palette[k].links) \cup Range(Palette[k].embeds)
                        THEN backlinks[t] \cup {d} ELSE backlinks[t]]
    /\ UNCHANGED <<settings, pc, modalResult, root, walkVars, effectVars>>

\* The index still reports d as a referrer of t although the text of d holds
\* no link to t (the index is refreshed after the text, not with it).
StaleBacklink(t, d) ==
    /\ pc = "idle" /\ removed = <<>>
    /\ content[d] # <<<<>>>>
    /\ d \notin backlinks[t]
    /\ Cardinality(StaleEntries) < MaxStale
    /\ backlinks' = [backlinks EXCEPT ![t] = @ \cup {d}]
    /\ UNCHANGED <<settings, cache, content, pc, modalResult, root, walkVars, effectVars>>

\* --------------------------------------------------------------- the walk
\* Ribbon click: deleteLinkedNotes(activeFile) starts getLinkedFiles(file, {}).
RibbonClick(f) ==
    /\ pc = "idle"
    /\ root' = f
    /\ IF Enters(f, {})
       THEN /\ pc' = "walking"
            /\ stack' = <<NewFrame(f)>>
            /\ visited' = {f}
            /\ UNCHANGED <<linkedFiles, filesToDelete>>
       ELSE /\ linkedFiles' = <<>>
            /\ filesToDelete' = filterFilesToDelete(<<>>, settings.deleteMode)
            /\ pc' = AfterWalkPc(filesToDelete')
            /\ UNCHANGED <<stack, visited>>
    /\ UNCHANGED <<settings, vaultVars, modalResult, thrown, effectVars>>

\* One iteration of links.forEach (lines 87-99).
WalkLink ==
    /\ pc = "walking"
    /\ Top.li <= Len(cache[Top.file].links)
    /\ LET t == cache[Top.file].links[Top.li]
           added == [Top EXCEPT !.set = SetAdd(@, t)]
       IN IF Addable(t, visited)
          THEN IF Recurses(t, visited)
               THEN \* the recursive call runs; its result is merged on return
                    /\ stack' = Append(ReplaceTop(added), NewFrame(t))
                    /\ visited' = visited \cup {t}
               ELSE \* no recursion, or the recursive call returned [] at once
                    /\ stack' = ReplaceTop([added EXCEPT !.li = @ + 1])
                    /\ UNCHANGED visited
          ELSE /\ stack' = ReplaceTop([Top EXCEPT !.li = @ + 1])
               /\ UNCHANGED visited
    /\ UNCHANGED <<settings, vaultVars, pc, modalResult, root, thrown, linkedFiles,
                   filesToDelete, effectVars>>

\* A walk that lets an embedded document contribute its own links.
WalkEmbedThrough ==
    /\ pc = "walking"
    /\ Top.li > Len(cache[Top.file].links)
    /\ Top.ei <= Len(cache[Top.file].embeds)
    /\ LET t == cache[Top.file].embeds[Top.ei]
           next == [Top EXCEPT !.ei = @ + 1]
           own == IF t = NoDest THEN <<>>
                  ELSE SelectSeq(cache[t].links, LAMBDA x : Addable(x, visited))
       IN stack' = ReplaceTop(IF Addable(t, visited)
                              THEN [next EXCEPT !.set = SetAddAll(SetAdd(@, t), own)]
                              ELSE next)
    /\ UNCHANGED <<settings, vaultVars, pc, modalResult, root, visited, thrown,
                   linkedFiles, filesToDelete, effectVars>>

\* One iteration of embeds.forEach (lines 106-111): add, never recurse.
WalkEmbed ==
    /\ pc = "walking"
    /\ Top.li > Len(cache[Top.file].links)
    /\ Top.ei <= Len(cache[Top.file].embeds)
    /\ LET t == cache[Top.file].embeds[Top.ei]
           next == [Top EXCEPT !.ei = @ + 1]
       IN stack' = ReplaceTop(IF Addable(t, visited)
                              THEN [next EXCEPT !.set = SetAdd(@, t)]
                              ELSE next)
    /\ UNCHANGED <<settings, vaultVars, pc, modalResult, root, visited, thrown,
                   linkedFiles, filesToDelete, effectVars>>

\* return Array.from(linkedFilesSet) (line 119): to the caller's forEach
\* (line 93), or to deleteLinkedNotes, which filters the list and either
\* returns, opens the modal or goes on (lines 48-61).
WalkReturn ==
    /\ pc = "walking"
    /\ Top.li > Len(cache[Top.file].links)
    /\ Top.ei > Len(cache[Top.file].embeds)
    /\ IF Len(stack) > 1
       THEN LET caller == stack[Len(stack) - 1]
                merged == [caller EXCEPT !.set = SetAddAll(@, Top.set),
                                         !.li = @ + 1]
            IN /\ stack' = SubSeq(stack, 1, Len(stack) - 2) \o <<merged>>
               /\ UNCHANGED <<pc, linkedFiles, filesToDelete>>
       ELSE /\ stack' = <<>>
            /\ linkedFiles' = Top.set
            /\ filesToDelete' = filterFilesToDelete(Top.set, settings.deleteMode)
            /\ pc' = AfterWalkPc(filesToDelete')
    /\ UNCHANGED <<settings, vaultVars, modalResult, root, visited, thrown, effectVars>>

Walk == WalkLink \/ WalkEmbed \/ WalkReturn

\* An exception is raised in the call on top of the stack, at any point of
\* its two loops. The set the call has built is lost with it. The try/catch
\* around the recursive call (lines 92-96) catches it in the caller, whose
\* forEach goes on with the next link; in the top-level call nothing catches
\* it and deleteLinkedNotes ends with it.
WalkThrow ==
    /\ pc = "walking"
    /\ Cardinality(thrown) < MaxThrows
    /\ thrown' = thrown \cup {Top.file}
    /\ IF Len(stack) > 1
       THEN LET caller == stack[Len(stack) - 1]
            IN /\ stack' = SubSeq(stack, 1, Len(stack) - 2)
                              \o <<[caller EXCEPT !.li = @ + 1]>>
               /\ UNCHANGED pc
       ELSE /\ stack' = <<>>
            /\ pc' = "threw"
    /\ UNCHANGED <<settings, vaultVars, modalResult, root, visited, linkedFiles,
                   filesToDelete, effectVars>>

\* ------------------------------------------------------------ FileListModal
\* The DELETE button (file-list-modal.ts lines 53-59): onConfirm(true).
ModalDelete ==
    /\ pc = "confirm"
    /\ modalResult' = "true"
    /\ pc' = "proceed"
    /\ UNCHANGED <<settings, vaultVars, root, walkVars, effectVars>>

\* The Cancel button (file-list-modal.ts lines 45-50): onConfirm(false), and
\* deleteLinkedNotes returns (lines 58-60).
ModalCancel ==
    /\ pc = "confirm"
    /\ modalResult' = "false"
    /\ pc' = "cancelled"
    /\ UNCHANGED <<settings, vaultVars, root, walkVars, effectVars>>

\* The modal is closed without a button: onClose (lines 62-65) calls nothing,
\* and the promise of confirmDeletion stays pending.
ModalDismiss ==
    /\ pc = "confirm"
    /\ pc' = "dismissed"
    /\ UNCHANGED <<settings, vaultVars, modalResult, root, walkVars, effectVars>>

\* ----------------------------------------------- backup, delete, rewrite
\* A backup that copies whatever the settings say.
BackedUpWhateverSettings(files) == files

\* backupFiles (lines 142-161): the files it copies.
BackedUp(files) ==
    IF settings.enableBackup /\ settings.backupLocation # "" THEN files ELSE <<>>

\* Lines 63-65 of deleteLinkedNotes: backupFiles runs to its end (it copies
\* nothing when backup is off or no location is set).
BackupFiles ==
    /\ pc = "proceed"
    /\ backups' = backups \o BackedUp(filesToDelete)
    /\ pc' = "deleting"
    /\ UNCHANGED <<settings, vaultVars, deleted, rejected, modalResult, root,
                   walkVars, deleteCalls, removed, original, chains>>

\* fs.mkdirSync or fs.copyFileSync throws on the k-th file (lines 153-157):
\* nothing catches it in backupFiles nor in deleteLinkedNotes, whose promise
\* is rejected.
BackupThrows(k) ==
    /\ pc = "proceed"
    /\ k \in DOMAIN BackedUp(filesToDelete)
    /\ backups' = backups \o SubSeq(filesToDelete, 1, k - 1)
    /\ pc' = "threw"
    /\ UNCHANGED <<settings, vaultVars, deleted, rejected, modalResult, root,
                   walkVars, deleteCalls, removed, original, chains>>

\* Lines 67-69: one vault.delete call per file, none awaited.
DeleteFiles ==
    /\ pc = "deleting"
    /\ deleteCalls' = deleteCalls \o filesToDelete
    /\ pc' = "rewriting"
    /\ UNCHANGED <<settings, vaultVars, deleted, rejected, modalResult, root,
                   walkVars, backups, removed, original, chains>>

\* The guard of line 71.
RewriterEnabledAlways == TRUE

RewriterEnabled == settings.removeBacklinks

\* Lines 71-75: the synchronous part of removeBacklinks, then the notice.
Proceed ==
    /\ pc = "rewriting"
    /\ IF RewriterEnabled
       THEN /\ removed' = filesToDelete
            /\ original' = content
            /\ chains' = NewChains(filesToDelete)
       ELSE UNCHANGED <<removed, original, chains>>
    /\ pc' = "done"
    /\ UNCHANGED <<settings, vaultVars, deleted, rejected, modalResult, root,
                   walkVars, backups, deleteCalls>>

\* The promise of one vault.delete call is fulfilled: the file is gone. No
\* promise settles before the synchronous code of deleteLinkedNotes has ended.
DeleteComplete(d) ==
    /\ pc = "done"
    /\ d \in Range(deleteCalls) \ (deleted \cup rejected)
    /\ deleted' = deleted \cup {d}
    /\ UNCHANGED <<settings, vaultVars, rejected, pc, modalResult, root, walkVars,
                   backups, deleteCalls, removed, original, chains>>

\* The promise of one vault.delete call is rejected: the file stays, and no
\* handler is attached to the promise (line 68).
DeleteReject(d) ==
    /\ pc = "done"
    /\ d \in Range(deleteCalls) \ (deleted \cup rejected)
    /\ rejected' = rejected \cup {d}
    /\ UNCHANGED <<settings, vaultVars, deleted, pc, modalResult, root, walkVars,
                   backups, deleteCalls, removed, original, chains>>

\* removeBacklinks(files) called on its own (lines 163-194).
RemoveBacklinks(files) ==
    /\ pc = "idle" /\ removed = <<>>
    /\ removed' = files
    /\ original' = content
    /\ chains' = NewChains(files)
    /\ UNCHANGED <<settings, vaultVars, deleted, rejected, pc, modalResult, root,
                   walkVars, backups, deleteCalls>>

\* vault.read is fulfilled and the then-callback runs (lines 194-249): the
\* lines are rewritten and, if one changed, vault.modify is called with the
\* new text; the callback does not wait for it.
ReadResolve(i) ==
    /\ chains[i].st = "reading"
    /\ chains[i].file \notin deleted
    /\ LET data == content[chains[i].file]
           r == Rewritten(data)
       IN chains' = [chains EXCEPT ![i] =
                        [@ EXCEPT !.st = IF r.changed THEN "writing" ELSE "unchanged",
                                  !.data = data,
                                  !.out = IF r.changed THEN r.lines ELSE <<>>]]
    /\ UNCHANGED <<settings, vaultVars, deleted, rejected, pc, modalResult, root,
                   walkVars, backups, deleteCalls, removed, original>>

\* vault.read is rejected because the file is gone; catch logs it (lines 250-252).
ReadReject(i) ==
    /\ chains[i].st = "reading"
    /\ chains[i].file \in deleted
    /\ chains' = [chains EXCEPT ![i].st = "failed"]
    /\ UNCHANGED <<settings, vaultVars, deleted, rejected, pc, modalResult, root,
                   walkVars, backups, deleteCalls, removed, original>>

\* The vault.modify of a chain (line 246) is fulfilled: the whole text of the
\* file is replaced by what the chain computed from what it read.
ModifyResolve(i) ==
    /\ chains[i].st = "writing"
    /\ chains[i].file \notin deleted
    /\ content' = [content EXCEPT ![chains[i].file] = StoredLines(chains[i].out)]
    /\ chains' = [chains EXCEPT ![i].st = "written"]
    /\ UNCHANGED <<settings, cache, backlinks, deleted, rejected, pc, modalResult,
                   root, walkVars, backups, deleteCalls, removed, original>>

\* The vault.modify of a chain is rejected. Its promise is not returned from
\* the then-callback, so the catch of line 250 does not see the rejection.
ModifyReject(i) ==
    /\ chains[i].st = "writing"
    /\ chains' = [chains EXCEPT ![i].st = "writeRejected"]
    /\ UNCHANGED <<settings, vaultVars, deleted, rejected, pc, modalResult, root,
                   walkVars, backups, deleteCalls, removed, original>>

\* ------------------------------------------------------- specifications
\* In SpecRewrite the user edits one note, and the files handed to
\* removeBacklinks are the other ones, in any order and without repeats.
Authors == {NumDocs}

RemovedLists ==
    {s \in UNION {[1..n -> Docs \ Authors] : n \in 1..MaxRemoved} : NoDup(s)}

NextWalk ==
    \/ \E d \in Docs, t \in Targets : EditLink(d, t)
    \/ \E d \in Docs, t \in Targets : EditEmbed(d, t)
    \/ \E f \in Docs : RibbonClick(f)
    \/ WalkLink
    \/ WalkEmbed
    \/ WalkReturn

\* The walk is synchronous code: once started it runs to its return.
SpecWalk == InitWalk /\ [][NextWalk]_vars /\ WF_vars(Walk)

\* The walk over graphs of links, with an exception raised at some point.
NextWalkThrow ==
    \/ \E d \in Docs, t \in Targets : EditLink(d, t)
    \/ \E f \in Docs : RibbonClick(f)
    \/ WalkLink
    \/ WalkReturn
    \/ WalkThrow

SpecWalkThrow == InitWalk /\ [][NextWalkThrow]_vars

Next ==
    \/ \E f \in Docs : RibbonClick(f)
    \/ WalkLink
    \/ WalkEmbed
    \/ WalkReturn
    \/ ModalDelete
    \/ ModalCancel
    \/ ModalDismiss
    \/ BackupFiles
    \/ \E k \in DOMAIN filesToDelete : BackupThrows(k)
    \/ DeleteFiles
    \/ Proceed
    \/ \E d \in Docs : DeleteComplete(d)
    \/ \E d \in Docs : DeleteReject(d)
    \/ \E i \in DOMAIN chains : ReadResolve(i)
    \/ \E i \in DOMAIN chains : ReadReject(i)
    \/ \E i \in DOMAIN chains : ModifyResolve(i)
    \/ \E i \in DOMAIN chains : ModifyReject(i)

Spec == Init /\ [][Next]_vars

NextRewrite ==
    \/ \E d \in Authors, k \in DOMAIN Palette : WriteLine(d, k)
    \/ \E t \in Docs, d \in Authors : StaleBacklink(t, d)
    \/ \E files \in RemovedLists : RemoveBacklinks(files)
    \/ \E i \in DOMAIN chains : ReadResolve(i)
    \/ \E i \in DOMAIN chains : ModifyResolve(i)

SpecRewrite == InitRewrite /\ [][NextRewrite]_vars

\* ------------------------------------------------- reference definitions
\* The reference graph the cache describes.
LinkTargets(d) == IF cache[d].has THEN Range(cache[d].links) \ {NoDest} ELSE {}

EmbedTargets(d) == IF cache[d].has THEN Range(cache[d].embeds) \ {NoDest} ELSE {}

AllTargets(d) == LinkTargets(d) \cup EmbedTargets(d)

\* Least set containing S and closed under link edges.
RECURSIVE LinkClosed(_)
LinkClosed(S) ==
    LET T == S \cup UNION {LinkTargets(d) : d \in S}
    IN IF T = S THEN S ELSE LinkClosed(T)

\* Least set containing S and closed under link and embed edges.
RECURSIVE AllClosed(_)
AllClosed(S) ==
    LET T == S \cup UNION {AllTargets(d) : d \in S}
    IN IF T = S THEN S ELSE AllClosed(T)

\* Documents reachable from r by one or more edges of either kind.
TransitiveClosure(r) == UNION {AllTargets(d) : d \in AllClosed({r})}

Acyclic == \A d \in Docs : d \notin TransitiveClosure(d)

\* The documents whose links and embeds the traversal rules of the walker
\* read: the root, and with recursive descent everything linked from it.
Traversed(r, recursive) ==
    IF ~cache[r].has THEN {}
    ELSE IF recursive THEN LinkClosed({r}) ELSE {r}

\* The reachable set of the traversal rules: every link or embed target of a
\* traversed document, the root excluded.
WalkReachable(r, recursive) ==
    UNION {AllTargets(d) : d \in Traversed(r, recursive)} \ {r}

WalkDone == pc \notin {"idle", "walking"}

\* ------------------------------------------------------------------ claims
\* C1: on every finite reference graph, cycles, self-loops and diamonds
\* included, and for either value of recursiveDelete, the walk terminates and
\* the returned list holds every document the traversal rules reach from the
\* root exactly once.
C1_WalkTerminatesEachOnce ==
    /\ (pc = "walking") ~> WalkDone
    /\ [](WalkDone => /\ NoDup(linkedFiles)
                      /\ Range(linkedFiles)
                           = WalkReachable(root, settings.recursiveDelete))

\* A finished recursive walk of a graph with a cycle through the root that
\* returned two documents.
C1_Witness ==
    /\ WalkDone
    /\ settings.recursiveDelete
    /\ root \in TransitiveClosure(root)
    /\ Len(linkedFiles) >= 2

\* C2 as stated: on an acyclic graph with recursiveDelete the result is the
\* transitive closure over link and embed edges, the root excluded.
C2_TransitiveClosureOverLinksAndEmbeds ==
    (WalkDone /\ settings.recursiveDelete /\ Acyclic)
        => Range(linkedFiles) = TransitiveClosure(root) \ {root}

\* C2 amended: on an acyclic graph with recursiveDelete the result is exactly
\* the set of documents reached from the root by a path of link edges that
\* may end with one embed edge, the root excluded.
C2_ClosureOverLinksThenOneEmbed ==
    (WalkDone /\ settings.recursiveDelete /\ Acyclic)
        => Range(linkedFiles)
             = UNION {AllTargets(d) : d \in LinkClosed({root})} \ {root}

\* A finished recursive walk of an acyclic graph that returned a document two
\* link edges away from the root.
C2_Witness ==
    /\ WalkDone /\ settings.recursiveDelete /\ Acyclic
    /\ \E d \in Range(linkedFiles) : d \notin AllTargets(root)

\* C3: for both values of recursiveDelete an embed target of a walked
\* document is in the result, the walk enters no document through an embed,
\* and a document reached only through an embed contributes none of its own
\* links or embeds.
C3_EmbedsAddedNeverTraversed ==
    WalkDone =>
        /\ \A d \in visited : EmbedTargets(d) \subseteq Range(linkedFiles) \cup {root}
        /\ visited \subseteq LinkClosed({root})
        /\ \A x \in Range(linkedFiles) :
              \E d \in LinkClosed({root}) : x \in AllTargets(d)

\* Root A embeds a document that has links of its own: walk(A) is that
\* document alone.
C3_Witness ==
    /\ WalkDone
    /\ \E e \in Docs : /\ e # root
                       /\ cache[root].embeds = <<e>>
                       /\ cache[root].links = <<>>
                       /\ LinkTargets(e) \ {root, e} # {}
                       /\ linkedFiles = <<e>>

\* C5: filterFilesToDelete returns its input under 'both', only 'md'
\* documents under 'notes-only', the input minus the 'notes-only' output under
\* 'attachments-only', and never a document absent from its input.
C5_FilterByMode ==
    WalkDone =>
        /\ Range(filesToDelete) \subseteq Range(linkedFiles)
        /\ settings.deleteMode = "both" => filesToDelete = linkedFiles
        /\ settings.deleteMode = "notes-only" =>
              \A d \in Range(filesToDelete) : Extension(d) = <<"m", "d">>
        /\ settings.deleteMode = "attachments-only" =>
              filesToDelete =
                  SelectSeq(linkedFiles,
                            LAMBDA d : d \notin Range(filterFilesToDelete(linkedFiles, "notes-only")))

\* The reachable list holds a note and an attachment and the mode drops one.
C5_Witness ==
    /\ WalkDone
    /\ \E a, b \in Range(linkedFiles) : IsNote(a) /\ ~IsNote(b)
    /\ settings.deleteMode = "notes-only"
    /\ Len(filesToDelete) = 1

\* -------------------------------------------------- deleteLinkedNotes claims
\* The vault of the scenario: 1 links 2, 2 links 3, 3 links back to 1.
IsLinkCycle ==
    /\ cache[1] = Cached(<<2>>, <<>>)
    /\ cache[2] = Cached(<<3>>, <<>>)
    /\ cache[3] = Cached(<<1>>, <<>>)

\* C4: the root is never in the walk result and so is never handed to
\* vault.delete, to backupFiles or to removeBacklinks, also when links or
\* embeds lead back to it; for 1 -> 2 -> 3 -> 1 walked from 1 with
\* recursiveDelete the result is exactly {2, 3}.
C4_RootNeverInResult ==
    /\ WalkDone => root \notin Range(linkedFiles) \cup Range(filesToDelete)
    /\ root \notin Range(deleteCalls) \cup Range(backups) \cup Range(removed)
    /\ \A i \in DOMAIN chains : chains[i].target # root
    /\ (WalkDone /\ IsLinkCycle /\ root = 1 /\ settings.recursiveDelete)
          => Range(linkedFiles) = {2, 3}

C4_Witness ==
    /\ pc = "done"
    /\ IsLinkCycle /\ root = 1 /\ settings.recursiveDelete
    /\ linkedFiles = <<2, 3>>
    /\ deleteCalls = <<2, 3>>
    /\ backups = <<2, 3>>
    /\ removed = <<2, 3>>

\* C6: with confirmDeletion on, nothing is backed up, no vault.delete is
\* called and no backlink is rewritten unless the modal has reported true; on
\* Cancel or on a modal that is never answered the vault keeps the text it
\* had (in Spec only the rewriter changes the text, the cache stays as it is).
C6_NothingBeforeConfirmation ==
    (settings.confirmDeletion /\ modalResult # "true") =>
        /\ backups = <<>>
        /\ deleteCalls = <<>>
        /\ removed = <<>>
        /\ chains = <<>>
        /\ deleted = {}
        /\ content = NoteTexts(cache)

C6_Witness ==
    /\ pc \in {"cancelled", "dismissed"}
    /\ settings.confirmDeletion
    /\ settings.enableBackup /\ settings.backupLocation # ""
    /\ settings.removeBacklinks
    /\ Len(filesToDelete) >= 2

\* ---------------------------------------------------- removeBacklinks claims
\* A chain whose then-callback has run.
Finished(c) == c.st \in {"unchanged", "writing", "written", "writeRejected"}

\* A chain whose then-callback has called vault.modify.
ModifyCalled(c) == c.st \in {"writing", "written", "writeRejected"}

\* The lines of data that are, trimmed, exactly the link to a removed note.
NoteLinkLines(data) ==
    {k \in DOMAIN data :
        \E i \in DOMAIN removed :
            /\ IsNote(removed[i])
            /\ Trim(data[k]) = Bracketed(LinkText(removed[i]))}

\* out holds, in the order of data, the inline rewrite of lines of data that
\* are not in dropped.
KeepsOrder(out, data, dropped) ==
    \E f \in [DOMAIN out -> DOMAIN data \ dropped] :
        /\ \A j, k \in DOMAIN out : j < k => f[j] < f[k]
        /\ \A j \in DOMAIN out :
              out[j] = RewriteInline(data[f[j]], FileNames(removed),
                                     settings.inlineLinkBehavior).line

InlineRefs(line, t) ==
    LET ref == Bracketed(LinkText(t))
    IN {p \in DOMAIN line :
           /\ StartsWithAt(line, p, ref)
           /\ Trim(line) # ref
           /\ ~(settings.considerListItemsAsStandalone /\ IsListItem(Trim(line)))
           /\ \A q \in DOMAIN line :
                 line[q] \in {"[", "]", "!"} => q \in p..(p + Len(ref) - 1)}

\* line with the link at p replaced as inlineLinkBehavior asks.
ReplacedAt(line, p, t) ==
    LET ref == Bracketed(LinkText(t))
    IN SubSeq(line, 1, p - 1)
       \o Replacement(ref, settings.inlineLinkBehavior)
       \o SubSeq(line, p + Len(ref), Len(line))

\* C8: a line that holds the link to a removed file inside other text is
\* written back with exactly the link replaced as the policy asks (nothing,
\* the link without brackets, or BACKLINK REMOVED) and the rest untouched.
C8_InlineReferenceReplaced ==
    \A i \in DOMAIN chains :
        LET c == chains[i]
        IN Finished(c) =>
              \A k \in DOMAIN c.data, t \in Range(removed) :
                  \A p \in InlineRefs(c.data[k], t) :
                      /\ ModifyCalled(c)
                      /\ \E j \in DOMAIN c.out : c.out[j] = ReplacedAt(c.data[k], p, t)

\* C9: rewriting again, with the same names and policy, the text a chain has
\* written changes nothing: the second pass reports changed = false.
C9_RewriteIdempotent ==
    \A i \in DOMAIN chains :
        ModifyCalled(chains[i]) => ~Rewritten(StoredLines(chains[i].out)).changed

\* The text s holds t somewhere, letter case aside.
Mentions(s, t) == \E p \in DOMAIN s : StartsWithAtFold(s, p, t)

\* C10: a referrer reported by the index whose text holds no reference to a
\* removed file is not written: vault.modify is not called for it.
C10_NoWriteWithoutReference ==
    \A i \in DOMAIN chains :
        LET c == chains[i]
        IN (/\ Finished(c)
            /\ \A k \in DOMAIN c.data, t \in Range(removed) :
                  ~Mentions(c.data[k], LinkText(t)))
           => c.st = "unchanged"

\* ------------------------------------------------------- failures and order
\* C11: a failing backup copy or a failing vault.delete of one file does not
\* abort the operation: no exception leaves deleteLinkedNotes, and once the
\* operation is past the confirmation vault.delete is still called for every
\* file of the list.
C11_FailureDoesNotAbort ==
    /\ pc # "threw"
    /\ rejected # {} => Range(filesToDelete) \subseteq Range(deleteCalls)

\* A chain that ended in a failed read or a failed write.
ChainFailed(c) == c.st \in {"failed", "writeRejected"}

\* A chain whose failure reached the catch of lines 250-252 and was logged.
ChainCaught(c) == c.st = "failed"

\* C12: a failed read or a failed vault.modify of one referrer is caught and
\* logged; the chains of the other referrers are started all the same (one
\* per referrer the index reports for each removed file).
C12_ChainFailuresCaught ==
    /\ \A i \in DOMAIN chains : ChainFailed(chains[i]) => ChainCaught(chains[i])
    /\ \A t \in Range(removed) : \A r \in backlinks[t] :
          \E i \in DOMAIN chains : chains[i].file = r /\ chains[i].target = t

\* C13 as stated: a chain reads or writes a referrer only when removeBacklinks
\* is on, after the confirmation if one is asked for, and after the files of
\* the list have been deleted.
C13_RewriterAfterDeletion ==
    \A i \in DOMAIN chains :
        chains[i].st # "reading" =>
            /\ settings.removeBacklinks
            /\ settings.confirmDeletion => modalResult = "true"
            /\ Range(filesToDelete) \subseteq deleted

\* C13: a chain exists, and so reads or writes a referrer, only when
\* removeBacklinks is on, after the confirmation if one is asked for, and
\* after vault.delete has been called for every file of the list; the calls
\* are not awaited, so the files may still be there.
C13_RewriterAfterDeleteCalls ==
    (removed # <<>> \/ chains # <<>>) =>
        /\ settings.removeBacklinks
        /\ settings.confirmDeletion => modalResult = "true"
        /\ deleteCalls = filesToDelete
        /\ pc = "done"

C13_Witness ==
    /\ settings.confirmDeletion
    /\ deleted = {}
    /\ \E i \in DOMAIN chains : chains[i].st = "written"

\* The settings under which backupFiles copies.
BackupOn == settings.enableBackup /\ settings.backupLocation # ""

\* C14: with backup on and a location set, every file vault.delete is called
\* for has been copied before, exactly once; with backup off or no location
\* nothing is copied and vault.delete is still called for every file.
C14_BackupOnceBeforeDelete ==
    /\ NoDup(backups)
    /\ BackupOn => Range(deleteCalls) \subseteq Range(backups)
    /\ ~BackupOn => backups = <<>>
    /\ pc = "done" => deleteCalls = filesToDelete

C14_Witness ==
    /\ BackupOn
    /\ pc = "deleting"
    /\ Len(filesToDelete) >= 2
    /\ backups = filesToDelete
    /\ deleteCalls = <<>>

\* The chains removeBacklinks started on document d: each is one vault.read.
ChainsOn(d) == {i \in DOMAIN chains : chains[i].file = d}

\* C15: in one removeBacklinks call every referrer is read exactly once and
\* written at most once, also when it refers to several removed files.
C15_OneReadOneWrite ==
    \A d \in Docs :
        /\ Cardinality(ChainsOn(d)) <= 1
        /\ (\E t \in Range(removed) : d \in backlinks[t]) => Cardinality(ChainsOn(d)) = 1
        /\ Cardinality({i \in ChainsOn(d) : ModifyCalled(chains[i])}) <= 1

\* The text of d after the line transformation is applied once to the text
\* it had when removeBacklinks was called.
RewrittenOnce(d) ==
    LET r == RewriteLines(original[d], FileNames(removed), settings.inlineLinkBehavior,
                          settings.considerListItemsAsStandalone)
    IN IF r.changed THEN StoredLines(r.lines) ELSE original[d]

\* Every chain on d has run to its end without a failure.
ChainsSettled(d) ==
    \A i \in ChainsOn(d) : chains[i].st \in {"unchanged", "written"}

\* C17: when several chains run on one referrer, in whatever order their
\* reads and writes fall, the text the referrer ends with is the line
\* transformation applied once to the text it started with.
C17_InterleavingsRewriteOnce ==
    \A d \in Docs :
        (Cardinality(ChainsOn(d)) >= 2 /\ ChainsSettled(d)) => content[d] = RewrittenOnce(d)

\* C18: vault.modify is never called on a file that is itself in the list
\* handed to removeBacklinks, also when the index reports one removed file
\* as a referrer of another.
C18_NoWriteToRemovedFile ==
    \A i \in DOMAIN chains :
        ModifyCalled(chains[i]) => chains[i].file \notin Range(removed)

\* Least set containing S and closed under the link edges of the documents
\* that are not in F.
RECURSIVE LinkClosedAvoiding(_, _)
LinkClosedAvoiding(S, F) ==
    LET T == S \cup UNION {LinkTargets(d) : d \in S \ F}
    IN IF T = S THEN S ELSE LinkClosedAvoiding(T, F)

\* The documents the traversal rules reach from r by a path that does not
\* go through a document of F.
WalkReachableAvoiding(r, F) ==
    IF ~cache[r].has THEN {}
    ELSE UNION {AllTargets(d) : d \in LinkClosedAvoiding({r}, F) \ F} \ {r}

\* C16: an exception raised inside the recursive call for a link target is
\* caught there, and the top-level walk still returns every document that a
\* path avoiding the failing document reaches, the documents visited inside
\* the failed call included.
C16_FailedBranchLosesNothingElse ==
    (WalkDone /\ pc # "threw" /\ settings.recursiveDelete /\ thrown # {}) =>
        WalkReachableAvoiding(root, thrown) \subseteq Range(linkedFiles)

====
